---- MODULE Spec2Model ----
(***************************************************************************)
(* Model of src/serializer/functions.js (class Functions): capture of the  *)
(* write effects of optimized functions, discovery of nested optimized     *)
(* functions, and the pairwise independence check.                         *)
(*                                                                         *)
(* The abstract interpreter (realm) is outside the modelled file.  What a  *)
(* function does when the realm evaluates it (the properties it writes,    *)
(* the property accesses it performs, the functions it creates and passes  *)
(* to __optimize, its completion) is input, drawn from bounded sets.       *)
(***************************************************************************)
EXTENDS Integers, Sequences, FiniteSets, TLC

(***************************************************************************)
(* Bounds                                                                  *)
(***************************************************************************)
MaxParams == 1        \* formal parameters per function
MaxRegs == 2          \* __optimize calls made by one evaluation
MaxDepth == 3         \* nesting depth of optimized functions
MaxCandidates == 3    \* __optimize calls in one run, those of global code included
MaxHeapOps == 3       \* property writes and accesses, all functions together
\* inputs of a run that are not the plain case: a parameter list other than
\* <<"id">>, an argument model, an __optimize call in a failed speculative
\* context, an __optimize call on a function value registered before, a
\* completion that is not a normal value, a reported side effect
MaxOddities == 1

(***************************************************************************)
(* Values                                                                  *)
(***************************************************************************)
Funs == {"F", "G", "H"}
NoFun == "undefined"
FunOrder == [f \in Funs |-> CASE f = "F" -> 1 [] f = "G" -> 2 [] f = "H" -> 3]
\* property bindings, as <<object, key>>
Bindings == {<<"O", "x">>, <<"O", "y">>}
Objs == {b[1] : b \in Bindings}
Locs == {"L1", "L2"}
NoLoc == "undefined"
ArgModels == {"undefined", "shape"}
Answers == {"Recover", "Fail"}
Results == {"Value", "AbruptCompletion", "PossiblyNormalCompletion"}
\* formal parameters: an identifier, a destructuring pattern, a parameter with
\* a default value (an assignment pattern), a rest element
ParamKinds == {"id", "pattern", "default", "rest"}

RECURSIVE SeqsUpTo(_, _)
SeqsUpTo(S, n) ==
  IF n = 0 THEN {<<>>}
  ELSE LET shorter == SeqsUpTo(S, n - 1)
       IN  shorter \cup {Append(s, x) : s \in shorter, x \in S}

Range(s) == {s[i] : i \in 1..Len(s)}
NoDup(s) == \A i, j \in 1..Len(s) : i # j => s[i] # s[j]

\* a rest element is syntactically the last formal parameter
ParamLists ==
  {ps \in SeqsUpTo(ParamKinds, MaxParams) :
     \A i \in 1..Len(ps) : ps[i] = "rest" => i = Len(ps)}

(***************************************************************************)
(* Insertion-ordered Map and Set of JavaScript, as sequences               *)
(***************************************************************************)
MapHas(m, k) == \E i \in 1..Len(m) : m[i].value = k
MapGet(m, k) == m[CHOOSE i \in 1..Len(m) : m[i].value = k]
\* Map.prototype.set: an existing key keeps its position, a new key is appended
MapSet(m, e) ==
  IF MapHas(m, e.value)
  THEN [i \in 1..Len(m) |-> IF m[i].value = e.value THEN e ELSE m[i]]
  ELSE Append(m, e)
RECURSIVE MapSetAll(_, _)
MapSetAll(m, es) == IF es = <<>> THEN m ELSE MapSetAll(MapSet(m, Head(es)), Tail(es))
SetAdd(s, x) == IF x \in Range(s) THEN s ELSE Append(s, x)
RECURSIVE SetFromSeq(_)
SetFromSeq(s) == IF s = <<>> THEN <<>> ELSE SetAdd(SetFromSeq(SubSeq(s, 1, Len(s) - 1)), s[Len(s)])

(***************************************************************************)
(* State                                                                   *)
(***************************************************************************)
VARIABLES
  fnParams,                \* funcValue.$FormalParameters of every function value
  optimizedFunctions,      \* realm.optimizedFunctions: Map value -> argModel
  writeEffects,            \* this.writeEffects: Map FunctionValue -> AdditionalFunctionEffects
  optimizedFunctionId,     \* this._optimizedFunctionId
  additionalFunctionsToProcess,
  additionalFunctions,     \* Set of function values, in insertion order
  additionalFunctionStack,
  frames,                  \* activations of _withEmptyOptimizedFunctionList, innermost last
  effects,                 \* result of realm.evaluatePure not yet committed
  applied,                 \* effects applied in the global environment, innermost last
  behaviour,               \* property accesses each function performs when evaluated
  globals,                 \* function values created by global code
  conflicts,               \* Map location -> CompilerDiagnostic
  fun1Index, fun2Index,    \* positions of the two loops of the independence check
  log,                     \* diagnostics handed to realm.handleError, tracer calls, evaluations
  pc,                      \* position in checkThatFunctionsAreIndependent
  observed,                \* last table returned by getAdditionalFunctionValuesToEffects
  scope,                   \* which inputs the run draws: "discovery", "conflicts" or "refusal",
                           \* or "react" or "hoisting" in a run of the React element
                           \* serializer
  calls,                   \* per function value, the call last built for its capture and for its
                           \* replay, and the functions whose effects were applied around each
  hooks,                   \* realm.reportPropertyAccess and realm.reportObjectGetOwnProperties
  \* ResidualReactElementSerializer
  lazilyHoistedNodes,      \* this._lazilyHoistedNodes: <<>> when undefined, else <<the record>>
  reactElements,           \* the ReactElement records made by _createReactElement, by value
  elementValues,           \* what the heap serializer knows of each React element value
  waiting,                 \* callbacks the emitter holds until a dependency is released
  released,                \* dependencies the emitter has released
  emitted,                 \* statements handed to emitter.emit, in order
  nameGenerators,          \* functionNameGenerator and intrinsicNameGenerator
  returned                 \* the results of the calls of serializeLazyHoistedNodes, in order

functionsVars == <<fnParams, optimizedFunctions, writeEffects, optimizedFunctionId,
                   additionalFunctionsToProcess, additionalFunctions, additionalFunctionStack,
                   frames, effects, applied, behaviour, globals, conflicts, fun1Index,
                   fun2Index, log, pc, observed, scope, calls, hooks>>
serializerVars == <<lazilyHoistedNodes, reactElements, elementValues, waiting, released,
                    emitted, nameGenerators, returned>>
vars == <<functionsVars, serializerVars>>

NoEffects == [createdObjects |-> {}, modifiedProperties |-> {}, result |-> "undefined"]
NotObserved == <<[value |-> "not called"]>>
\* ResidualReactElementSerializer constructor (lines 57-63), no React element
\* serialized yet
ConstructedSerializer ==
  /\ lazilyHoistedNodes = <<>>
  /\ reactElements = <<>>
  /\ elementValues = <<>>
  /\ waiting = <<>>
  /\ released = {}
  /\ emitted = <<>>
  /\ nameGenerators = [function |-> 0, intrinsic |-> 0]
  /\ returned = <<>>

\* the realm has no hook installed
NoHooks == [reportPropertyAccess |-> "undefined", reportObjectGetOwnProperties |-> "undefined"]

Event(ev, fn, code, loc, n) ==
  [ev |-> ev, fn |-> fn, code |-> code, loc |-> loc, n |-> n, answer |-> ""]
\* realm.handleError(new CompilerDiagnostic(msg, location, code, severity)),
\* whose answer the caller ignores
Diagnostic(code, fn, loc) == Event("handleError", fn, code, loc, 0)
\* realm.handleError(...) whose answer the caller compares with "Recover"
Answered(code, fn, answer) == [Diagnostic(code, fn, NoLoc) EXCEPT !.answer = answer]
CountEv(l, ev) == Cardinality({i \in 1..Len(l) : l[i].ev = ev})
CountCode(l, code) == Cardinality({i \in 1..Len(l) : l[i].ev = "handleError" /\ l[i].code = code})

Entry(v, m, ok) == [value |-> v, argModel |-> m, valid |-> ok]

(***************************************************************************)
(* Functions._generateOptimizedFunctionsFromRealm                          *)
(***************************************************************************)
NumInvalid(list) == Cardinality({i \in 1..Len(list) : ~list[i].valid})

\* recovers: how many PP1008 errors the error handler answers "Recover" to
\* before it answers anything else
RECURSIVE generateOptimizedFunctionsFromRealm(_, _, _)
generateOptimizedFunctionsFromRealm(list, recovers, acc) ==
  IF list = <<>> THEN acc
  ELSE LET e == Head(list)
           reported == [acc EXCEPT !.diags = Append(@,
                          Answered("PP1008", e.value, IF recovers = 0 THEN "Fail" ELSE "Recover"))]
       IN  IF ~e.valid
           THEN IF recovers = 0
                THEN [reported EXCEPT !.threw = TRUE]
                ELSE generateOptimizedFunctionsFromRealm(Tail(list), recovers - 1, reported)
           ELSE generateOptimizedFunctionsFromRealm(Tail(list), recovers,
                  [acc EXCEPT !.out = Append(@, [value |-> e.value, argModel |-> e.argModel])])

Generated(list, recovers) ==
  generateOptimizedFunctionsFromRealm(list, recovers, [out |-> <<>>, diags |-> <<>>, threw |-> FALSE])

(***************************************************************************)
(* Functions._callOfFunction                                               *)
(***************************************************************************)
\* line 184, funcValue.getLength(): the "length" of a function is the number
\* of formal parameters that precede the first rest element or default value
RECURSIVE getLength(_)
getLength(params) ==
  IF params = <<>> \/ Head(params) \in {"rest", "default"} THEN 0
  ELSE 1 + getLength(Tail(params))

\* AbstractValue.createAbstractArgument(realm, paramName, location, type, shape)
AbstractArgument(name, argModel) ==
  [name |-> name, shape |-> argModel,
   type |-> IF argModel # "undefined" THEN "shape type" ELSE "Value"]

RECURSIVE callArgs(_, _, _)
callArgs(params, i, argModel) ==
  IF i > Len(params) THEN [threw |-> FALSE, args |-> <<>>]
  ELSE IF params[i] = "id"
       THEN LET rest == callArgs(params, i + 1, argModel)
            IN  [rest EXCEPT !.args = <<AbstractArgument(i, argModel)>> \o @]
       ELSE [threw |-> TRUE, args |-> <<>>]

callOfFunction(params, argModel) ==
  LET numArgs == getLength(params)
      built == IF numArgs > 0 THEN callArgs(params, 1, argModel)
               ELSE [threw |-> FALSE, args |-> <<>>]
  IN  [threw |-> built.threw,
       args |-> built.args,
       thisArg |-> [name |-> "this", shape |-> "undefined", type |-> "ObjectValue"]]

(***************************************************************************)
(* What the realm may do when it evaluates a function                      *)
(***************************************************************************)
Access(kind, loc, ob, key) == [kind |-> kind, loc |-> loc, ob |-> ob, key |-> key]
\* reads of a property binding (realm.reportPropertyAccess) and enumerations
\* of the own properties of an object (realm.reportObjectGetOwnProperties)
Accesses ==
  {Access("read", l, b[1], b[2]) : l \in Locs, b \in Bindings}
    \cup {Access("enum", l, o, "*") : l \in Locs, o \in Objs}

RECURSIVE TotalWrites(_)
TotalWrites(recs) ==
  IF recs = <<>> THEN 0
  ELSE Cardinality(Head(recs).modifiedProperties) + TotalWrites(Tail(recs))
TotalAbrupt(recs) == Cardinality({i \in 1..Len(recs) : recs[i].result # "Value"})
OthersOf(f) == SelectSeq(writeEffects, LAMBDA r : r.value # f)
\* the writes and accesses drawn so far, those of the last evaluation of f excepted
HeapOpsOfOthers(f) ==
  LET fs == Funs \ {f}
      g == CHOOSE x \in fs : TRUE
      h == CHOOSE x \in fs \ {g} : TRUE
  IN  TotalWrites(OthersOf(f)) + Len(behaviour[g]) + Len(behaviour[h])
\* locations and property keys are interchangeable names: a run draws "L1"
\* before "L2" and "x" before "y", the writes of an evaluation counting as
\* drawn before its accesses
LocsOf(f, acc) ==
  {acc[i].loc : i \in 1..Len(acc)}
    \cup UNION {{behaviour[g][i].loc : i \in 1..Len(behaviour[g])} : g \in Funs \ {f}}
KeysOf(f, writes, acc) ==
  {b[2] : b \in writes} \cup {acc[i].key : i \in 1..Len(acc)}
    \cup UNION {{behaviour[g][i].key : i \in 1..Len(behaviour[g])} : g \in Funs \ {f}}
    \cup UNION {{b[2] : b \in OthersOf(f)[i].modifiedProperties} : i \in 1..Len(OthersOf(f))}
NamesInOrder(f, writes, acc) ==
  LET reads == SelectSeq(acc, LAMBDA a : a.kind = "read")
  IN  /\ ("L1" \notin LocsOf(f, <<>>) /\ acc # <<>>) => acc[1].loc = "L1"
      /\ "x" \notin KeysOf(f, {}, <<>>) =>
            IF writes # {} THEN <<"O", "x">> \in writes
            ELSE reads # <<>> => reads[1].key = "x"

\* function values that exist so far: those of global code, those created by
\* a captured evaluation, those passed to __optimize
Known ==
  globals \cup UNION {writeEffects[i].createdObjects : i \in 1..Len(writeEffects)}
    \cup {log[i].fn : i \in {j \in 1..Len(log) : log[j].ev = "__optimize"}}
\* function values created by the functions whose effects are applied
Visible == UNION {(MapGet(writeEffects, applied[i])).createdObjects : i \in 1..Len(applied)}

Optimize(e) == Event("__optimize", e.value, e.argModel, NoLoc, IF e.valid THEN 1 ELSE 0)
OptimizeEvents(es) == [i \in 1..Len(es) |-> Optimize(es[i])]
Shapes(es) == Cardinality({i \in 1..Len(es) : es[i].argModel # "undefined"})
ShapesIn(l) ==
  Cardinality({i \in 1..Len(l) : l[i].ev = "__optimize" /\ l[i].code # "undefined"})
InvalidIn(l) == Cardinality({i \in 1..Len(l) : l[i].ev = "__optimize" /\ l[i].n = 0})
\* function values passed to __optimize so far
Optimized == {log[i].fn : i \in {j \in 1..Len(log) : log[j].ev = "__optimize"}}
\* __optimize(f) called again on a function value, with no argument model
Repeats(es) ==
  Cardinality({i \in 1..Len(es) : es[i].argModel = "undefined" /\ es[i].value \in Optimized})
RepeatsIn(l) ==
  Cardinality({i \in 1..Len(l) :
                 /\ l[i].ev = "__optimize" /\ l[i].code = "undefined"
                 /\ \E j \in 1..(i - 1) : l[j].ev = "__optimize" /\ l[j].fn = l[i].fn})

Undeclared == <<"?">>
OddParams == Cardinality({f \in Funs : fnParams[f] \notin {<<"id">>, Undeclared}})
\* the inputs drawn so far that are not the plain case, those of the last
\* evaluation of f excepted
Oddities(f) ==
  OddParams + ShapesIn(log) + InvalidIn(log) + RepeatsIn(log) + CountCode(log, "PP1007")
    + TotalAbrupt(OthersOf(f))
\* a run draws either heap accesses or inputs that are not the plain case
OddLeft(f) == IF scope # "discovery" THEN 0 ELSE MaxOddities - Oddities(f)

\* how many __optimize calls the evaluation running now may still make
MaxNew ==
  LET left == MaxCandidates - CountEv(log, "__optimize")
  IN  IF Len(frames) >= MaxDepth THEN 0
      ELSE IF left < MaxRegs THEN left ELSE MaxRegs

\* function values that do not exist yet are interchangeable names: they are
\* drawn in the order F, G, H
InOrder(fresh, used) ==
  \A v \in used \cap fresh : \A u \in fresh : FunOrder[u] < FunOrder[v] => u \in used

\* the __optimize calls one evaluation may make: distinct function values that
\* exist in the evaluation (global, created by it, or created by a function
\* whose effects are applied), or values of a failed speculative context;
\* a run that draws heap accesses calls __optimize once per function value
RegLists(f, created, fresh) ==
  LET models == IF OddLeft(f) > 0 THEN ArgModels ELSE {"undefined"}
      once == IF scope # "discovery" THEN Optimized ELSE {}
      valid == {Entry(v, m, TRUE) :
                  v \in (globals \cup Visible \cup fresh \cup created) \ once, m \in models}
      invalid == IF OddLeft(f) > 0
                 THEN {Entry(v, "undefined", FALSE) : v \in fresh \ created}
                 ELSE {}
  IN  {es \in SeqsUpTo(valid \cup invalid, MaxNew) :
         /\ \A i, j \in 1..Len(es) : i # j => es[i].value # es[j].value
         /\ Shapes(es) + NumInvalid(es) + Repeats(es) <= OddLeft(f)
         /\ InOrder(fresh, created \cup {es[i].value : i \in 1..Len(es)})}

HeapChoices(f) ==
  IF scope # "discovery"
  THEN LET left == MaxHeapOps - HeapOpsOfOthers(f)
       IN  {h \in (SUBSET Bindings) \X SeqsUpTo(Accesses, left) :
              /\ Cardinality(h[1]) + Len(h[2]) <= left
              /\ NamesInOrder(f, h[1], h[2])}
  ELSE {<<{}, <<>>>>}
ResultChoices(f) == IF OddLeft(f) > 0 THEN Results ELSE {"Value"}
SideEffectChoices(f) == IF OddLeft(f) > 0 THEN {0, 1} ELSE {0}
\* a function value created by the evaluation matters only if __optimize can
\* still be called on it
CreatedChoices(fresh) ==
  IF MaxNew = 0 THEN {{}} ELSE {c \in SUBSET fresh : Cardinality(c) <= MaxRegs}

(***************************************************************************)
(* Initial state: global code has run and has called __optimize            *)
(***************************************************************************)
TopLevelLists ==
  LET order == <<"F", "G", "H">>
  IN  {es \in UNION {[1..n -> [value : Funs, argModel : ArgModels, valid : BOOLEAN]] :
                       n \in 1..(IF MaxCandidates < 3 THEN MaxCandidates ELSE 3)} :
         \A i \in 1..Len(es) : es[i].value = order[i]}

Constructed ==
  /\ fnParams = [f \in Funs |-> Undeclared]
  /\ optimizedFunctions \in (IF scope \in {"react", "hoisting"} THEN {<<>>} ELSE TopLevelLists)
  /\ Shapes(optimizedFunctions) + NumInvalid(optimizedFunctions)
       <= (IF scope # "discovery" THEN 0 ELSE MaxOddities)
  /\ writeEffects = <<>>
  /\ optimizedFunctionId = 0
  /\ additionalFunctionsToProcess = <<>>
  /\ additionalFunctions = <<>>
  /\ additionalFunctionStack = <<>>
  /\ frames = <<>>
  /\ effects = NoEffects
  /\ applied = <<>>
  /\ behaviour = [f \in Funs |-> <<>>]
  /\ globals = {optimizedFunctions[i].value : i \in {j \in 1..Len(optimizedFunctions) : optimizedFunctions[j].valid}}
  /\ conflicts = <<>>
  /\ fun1Index = 0
  /\ fun2Index = 0
  /\ log = OptimizeEvents(optimizedFunctions)
  /\ pc = "start"
  /\ observed = NotObserved
  /\ calls = [f \in Funs |-> [capture |-> <<>>, replay |-> <<>>,
                               captureApplied |-> <<>>, replayApplied |-> <<>>]]
  /\ hooks = NoHooks
  /\ ConstructedSerializer

Init == scope = "discovery" /\ Constructed
InitConflicts == scope = "conflicts" /\ Constructed
InitRefusal == scope = "refusal" /\ Constructed
\* runs of the React element serializer: outside any additional function, and
\* with React elements that only an additional function references
InitReact == scope = "react" /\ Constructed
InitHoisting == scope = "hoisting" /\ Constructed

\* throw new FatalError()
Throw(kind) == Event("throw", "", kind, NoLoc, 0)
\* a failed invariant(...) of the given source line
Violated(line) == Event("throw", "", "InvariantViolation", NoLoc, line)

(***************************************************************************)
(* checkThatFunctionsAreIndependent: capture of write effects              *)
(***************************************************************************)
\* lines 236-240
Start ==
  /\ pc = "start"
  /\ \E recovers \in 0..NumInvalid(optimizedFunctions) :
       LET gen == Generated(optimizedFunctions, recovers)
       IN  IF gen.threw
           THEN /\ log' = log \o gen.diags \o <<Throw("FatalError")>>
                /\ pc' = "aborted"
                /\ UNCHANGED <<additionalFunctionsToProcess, additionalFunctions>>
           ELSE /\ log' = log \o gen.diags
                /\ pc' = "loop"
                /\ additionalFunctionsToProcess' = gen.out
                /\ additionalFunctions' = SetFromSeq([i \in 1..Len(gen.out) |-> gen.out[i].value])
  /\ UNCHANGED <<fnParams, optimizedFunctions, writeEffects, optimizedFunctionId,
                 additionalFunctionStack, frames, effects, applied, behaviour, globals,
                 conflicts, fun1Index, fun2Index, observed, scope, calls, hooks,
                 serializerVars>>

\* the formal parameters of a function value, drawn when it is first called
ParamChoices(f) ==
  IF fnParams[f] # Undeclared THEN {fnParams[f]}
  ELSE IF OddLeft(f) > 0 THEN ParamLists ELSE {<<"id">>}

\* line 226 keeping the list it should replace
newOptimizedFunctions_Keep(old) == old

\* line 226: this.realm.optimizedFunctions = new Map()
newOptimizedFunctions(old) == <<>>

\* line 227 without the increment
nextOptimizedFunctionId_Same(id) == id

\* line 227: this._optimizedFunctionId++
nextOptimizedFunctionId(id) == id + 1

\* _withEmptyOptimizedFunctionList up to the call of func (lines 225-230), then
\* recordWriteEffectsForOptimizedFunctionAndNestedFunctions up to the call built
\* by _callOfFunction (lines 258-259)
Enter(entry, outer) ==
  \E params \in ParamChoices(entry.value) :
  LET id == optimizedFunctionId
      call == callOfFunction(params, entry.argModel)
      begun == Append(log, Event("beginOptimizingFunction", entry.value, "", NoLoc, id))
  IN  /\ fnParams' = [fnParams EXCEPT ![entry.value] = params]
      /\ optimizedFunctions' = newOptimizedFunctions(optimizedFunctions)
      /\ optimizedFunctionId' = nextOptimizedFunctionId(id)
      /\ additionalFunctionStack' = Append(additionalFunctionStack, entry.value)
      /\ IF call.threw
         THEN /\ log' = begun \o <<Diagnostic("PP1005", entry.value, NoLoc), Throw("FatalError")>>
              /\ pc' = "aborted"
              /\ frames' = <<>>
              /\ applied' = <<>>
              /\ calls' = calls
         ELSE /\ log' = begun
              /\ calls' = [calls EXCEPT ![entry.value].capture = <<call>>,
                                        ![entry.value].captureApplied = <<Range(applied)>>]
              /\ pc' = "eval"
              /\ frames' = Append(outer, [value |-> entry.value, argModel |-> entry.argModel,
                                          oldRealmOptimizedFunctions |-> optimizedFunctions,
                                          currentOptimizedFunctionId |-> id,
                                          call |-> call, newOptFuncs |-> <<>>])
              /\ applied' = applied

\* a loop condition of line 308 that never holds
hasNext_Never(toProcess) == FALSE

\* line 308: additionalFunctionsToProcess.length > 0
hasNext(toProcess) == Len(toProcess) > 0

\* lines 308-310
TopLevelNext ==
  /\ pc = "loop"
  /\ hasNext(additionalFunctionsToProcess)
  /\ additionalFunctionsToProcess' = Tail(additionalFunctionsToProcess)
  /\ Enter(Head(additionalFunctionsToProcess), frames)
  /\ UNCHANGED <<writeEffects, additionalFunctions, effects, behaviour, globals,
                 conflicts, fun1Index, fun2Index, observed, scope, hooks,
                 serializerVars>>

\* lines 262-265: the warning handed to realm.handleError, whose answer is
\* not looked at
logCompilerDiagnostic(f, answer) == Answered("PP1007", f, answer)

\* lines 262-270: realm.evaluatePure(() => realm.evaluateForEffectsInGlobalEnv(call), ...)
\* every reported side effect reaches logCompilerDiagnostic
EvaluatePure ==
  /\ pc = "eval"
  /\ LET top == frames[Len(frames)]
         f == top.value
         fresh == Funs \ (Known \cup {f})
     IN  \E heap \in HeapChoices(f), result \in ResultChoices(f),
            side \in SideEffectChoices(f), created \in CreatedChoices(fresh) :
           \E regs \in RegLists(f, created, fresh),
              answer \in IF side = 0 THEN {"Recover"} ELSE Answers :
              /\ (IF result = "Value" THEN 0 ELSE 1) + side + Shapes(regs) + NumInvalid(regs)
                   + Repeats(regs) <= OddLeft(f)
              /\ effects' = [createdObjects |-> created, modifiedProperties |-> heap[1],
                             result |-> result]
              /\ behaviour' = [behaviour EXCEPT ![f] = heap[2]]
              /\ optimizedFunctions' = MapSetAll(optimizedFunctions, regs)
              /\ globals' = globals \cup
                   {regs[i].value : i \in {j \in 1..Len(regs) :
                                             regs[j].valid /\ regs[j].value \in fresh \ created}}
              /\ log' = log \o <<Event("evaluatePure", f, "", NoLoc, top.currentOptimizedFunctionId)>>
                            \o OptimizeEvents(regs)
                            \o [i \in 1..side |-> logCompilerDiagnostic(f, answer)]
  /\ pc' = "commit"
  /\ UNCHANGED <<fnParams, writeEffects, optimizedFunctionId, additionalFunctionsToProcess,
                 additionalFunctions, additionalFunctionStack, frames, applied, conflicts,
                 fun1Index, fun2Index, observed, scope, calls, hooks,
                 serializerVars>>

\* lines 245-252 answering the function whose capture is in progress around
\* the capture of functionValue
getDeclaringAdditionalFunction_Revealer(table, functionValue) ==
  IF Len(additionalFunctionStack) >= 2
  THEN additionalFunctionStack[Len(additionalFunctionStack) - 1]
  ELSE NoFun

\* lines 245-252
getDeclaringAdditionalFunction(table, functionValue) ==
  LET declaring == {i \in 1..Len(table) : functionValue \in table[i].createdObjects}
  IN  IF declaring = {} THEN NoFun
      ELSE table[CHOOSE i \in declaring : \A j \in declaring : i <= j].value

\* createAdditionalEffects naming the function value itself as the parent
createAdditionalEffects_OwnParent(functionValue, e, parent) ==
  [value |-> functionValue, parentAdditionalFunction |-> functionValue,
   createdObjects |-> e.createdObjects, modifiedProperties |-> e.modifiedProperties,
   result |-> e.result]

\* createAdditionalEffects(realm, effects, ..., parentAdditionalFunction)
createAdditionalEffects(functionValue, e, parent) ==
  [value |-> functionValue, parentAdditionalFunction |-> parent,
   createdObjects |-> e.createdObjects, modifiedProperties |-> e.modifiedProperties,
   result |-> e.result]

\* a test of line 282 that never finds the function value
alreadyOptimized_Never(table, functionValue) == FALSE

\* line 282
alreadyOptimized(table, functionValue) == MapHas(table, functionValue)

\* lines 271-296: the effects are wrapped and stored, then applied, and the
\* __optimize calls of the evaluation are read back
Commit ==
  /\ pc = "commit"
  /\ LET top == frames[Len(frames)]
         f == top.value
         additionalFunctionEffects ==
           createAdditionalEffects(f, effects, getDeclaringAdditionalFunction(writeEffects, f))
         twice == alreadyOptimized(writeEffects, f)
     IN  \E answer \in IF twice THEN Answers ELSE {"Recover"},
            recovers \in 0..NumInvalid(optimizedFunctions) :
           LET gen == Generated(optimizedFunctions, recovers)
               reported == IF twice THEN Append(log, Answered("PP1009", f, answer)) ELSE log
           IN  IF answer # "Recover"
               THEN /\ log' = Append(reported, Throw("FatalError"))
                    /\ pc' = "aborted"
                    /\ frames' = <<>>
                    /\ applied' = <<>>
                    /\ UNCHANGED writeEffects
               ELSE /\ writeEffects' = MapSet(writeEffects, additionalFunctionEffects)
                    /\ IF gen.threw
                       THEN /\ log' = reported \o gen.diags \o <<Throw("FatalError")>>
                            /\ pc' = "aborted"
                            /\ frames' = <<>>
                            /\ applied' = <<>>
                       ELSE /\ log' = reported \o gen.diags
                            /\ pc' = "nested"
                            /\ frames' = [frames EXCEPT ![Len(frames)].newOptFuncs = gen.out]
                            /\ applied' = Append(applied, f)
  /\ effects' = NoEffects
  /\ UNCHANGED <<fnParams, optimizedFunctions, optimizedFunctionId,
                 additionalFunctionsToProcess, additionalFunctions, additionalFunctionStack,
                 behaviour, globals, conflicts, fun1Index, fun2Index, observed, scope, calls, hooks,
                 serializerVars>>

\* lines 297-299
NestedNext ==
  /\ pc = "nested"
  /\ frames[Len(frames)].newOptFuncs # <<>>
  /\ LET newEntry == Head(frames[Len(frames)].newOptFuncs)
     IN  /\ additionalFunctions' = SetAdd(additionalFunctions, newEntry.value)
         /\ Enter(newEntry, [frames EXCEPT ![Len(frames)].newOptFuncs = Tail(@)])
  /\ UNCHANGED <<writeEffects, additionalFunctionsToProcess, effects, behaviour,
                 globals, conflicts, fun1Index, fun2Index, observed, scope, hooks,
                 serializerVars>>

\* line 305 reading the top of the stack without removing it
pop_Peek(stack) ==
  IF stack = <<>> THEN [rest |-> stack, top |-> NoFun]
  ELSE [rest |-> stack, top |-> stack[Len(stack)]]

\* line 305: additionalFunctionStack.pop()
pop(stack) ==
  IF stack = <<>> THEN [rest |-> stack, top |-> NoFun]
  ELSE [rest |-> SubSeq(stack, 1, Len(stack) - 1), top |-> stack[Len(stack)]]

\* line 231 with the counter of line 227 in place of the saved id
endOptimizingFunction_LatestId(frame) ==
  Event("endOptimizingFunction", frame.value, "", NoLoc, optimizedFunctionId - 1)

\* line 231: t2.endOptimizingFunction(currentOptimizedFunctionId)
endOptimizingFunction(frame) ==
  Event("endOptimizingFunction", frame.value, "", NoLoc, frame.currentOptimizedFunctionId)

\* line 232 with the two lists exchanged: a new entry replaces an old one
restore_NewWins(current, old) == MapSetAll(old, current)

\* line 232: every old entry is set in the list of the capture
restore(current, old) == MapSetAll(current, old)

\* lines 303-305, then _withEmptyOptimizedFunctionList lines 231-232
NestedReturn ==
  /\ pc = "nested"
  /\ frames[Len(frames)].newOptFuncs = <<>>
  /\ LET top == frames[Len(frames)]
         popped == pop(additionalFunctionStack)
     IN  /\ additionalFunctionStack' = popped.rest
         /\ IF popped.top # top.value
            THEN /\ log' = Append(log, Violated(305))
                 /\ pc' = "aborted"
                 /\ frames' = <<>>
                 /\ applied' = <<>>
                 /\ UNCHANGED optimizedFunctions
            ELSE /\ log' = Append(log, endOptimizingFunction(top))
                 /\ optimizedFunctions' = restore(optimizedFunctions, top.oldRealmOptimizedFunctions)
                 /\ frames' = SubSeq(frames, 1, Len(frames) - 1)
                 /\ applied' = SubSeq(applied, 1, Len(applied) - 1)
                 /\ pc' = IF Len(frames) = 1 THEN "loop" ELSE "nested"
  /\ UNCHANGED <<fnParams, writeEffects, optimizedFunctionId, additionalFunctionsToProcess,
                 additionalFunctions, effects, behaviour, globals, conflicts, fun1Index,
                 fun2Index, observed, scope, calls, hooks,
                 serializerVars>>

\* lines 308, 312, 315
TopLevelDone ==
  /\ pc = "loop"
  /\ ~hasNext(additionalFunctionsToProcess)
  /\ IF additionalFunctionStack # <<>>
     THEN /\ log' = Append(log, Violated(312))
          /\ pc' = "aborted"
          /\ UNCHANGED <<conflicts, fun1Index, fun2Index>>
     ELSE /\ conflicts' = <<>>
          /\ fun1Index' = 1
          /\ fun2Index' = 0
          /\ pc' = "verify"
          /\ UNCHANGED log
  /\ UNCHANGED <<fnParams, optimizedFunctions, writeEffects, optimizedFunctionId,
                 additionalFunctionsToProcess, additionalFunctions, additionalFunctionStack,
                 frames, effects, applied, behaviour, globals, observed, scope, calls, hooks,
                 serializerVars>>

(***************************************************************************)
(* Functions.reportWriteConflicts                                          *)
(***************************************************************************)
\* the objects whose property bindings refuse serialization: none, or in a
\* run of scope "refusal" every object
RefusingObjs == IF scope = "refusal" THEN Objs ELSE {}
\* ObjectValue.refuseSerializationOnPropertyBinding(pb)
refuseSerializationOnPropertyBinding(pb) == pb[1] \in RefusingObjs

\* lines 368-376
reportConflict(cs, fname, location) ==
  MapSet(cs, [value |-> location, diagnostic |-> Diagnostic("PP1003", fname, location)])

\* the hook of lines 382-386 without the conflicts.has(location) test
reportObjectGetOwnProperties_EveryHit(cs, fname, pbs, a) ==
  LET writtenObjects == {pb[1] : pb \in pbs}
  IN  IF a.ob \in writtenObjects THEN reportConflict(cs, fname, a.loc) ELSE cs

\* lines 382-386: the hook installed as realm.reportObjectGetOwnProperties
reportObjectGetOwnProperties(cs, fname, pbs, a) ==
  LET writtenObjects == {pb[1] : pb \in pbs}
  IN  IF a.ob \in writtenObjects /\ ~MapHas(cs, a.loc) THEN reportConflict(cs, fname, a.loc) ELSE cs

\* the hook of lines 388-393 without the conflicts.has(location) test
reportPropertyAccess_EveryHit(cs, fname, pbs, a) ==
  LET pb == <<a.ob, a.key>>
  IN  IF refuseSerializationOnPropertyBinding(pb) THEN cs
      ELSE IF a.loc = NoLoc THEN cs
      ELSE IF pb \in pbs THEN reportConflict(cs, fname, a.loc)
      ELSE cs

\* lines 388-393: the hook installed as realm.reportPropertyAccess
reportPropertyAccess(cs, fname, pbs, a) ==
  LET pb == <<a.ob, a.key>>
  IN  IF refuseSerializationOnPropertyBinding(pb) THEN cs
      ELSE IF a.loc = NoLoc THEN cs
      ELSE IF pb \in pbs /\ ~MapHas(cs, a.loc) THEN reportConflict(cs, fname, a.loc)
      ELSE cs

\* lines 381-382 and 387-388: the two closures over fname, conflicts and pbs
\* that replace the hooks of the realm
installHooks(fname) ==
  [reportPropertyAccess |-> <<"reportConflict", fname>>,
   reportObjectGetOwnProperties |-> <<"reportConflict", fname>>]

\* the finally block of lines 396-399 left out
restoreHooks_Skip(old, installed) == installed

\* lines 396-399: the finally block puts back the hooks saved at lines 381, 387
restoreHooks(old, installed) ==
  [reportPropertyAccess |-> old.reportPropertyAccess,
   reportObjectGetOwnProperties |-> old.reportObjectGetOwnProperties]

\* line 395: the evaluation of call2 may throw; a run that draws no heap
\* accesses may draw one replay that throws
ReplayThrows ==
  IF scope = "discovery" /\ Oddities(NoFun) < MaxOddities THEN BOOLEAN ELSE {FALSE}

\* lines 394-399: the replay of call2, which reaches the hooks once per access
RECURSIVE reportWriteConflicts(_, _, _, _)
reportWriteConflicts(fname, cs, pbs, accesses) ==
  IF accesses = <<>> THEN cs
  ELSE LET a == Head(accesses)
           next == IF a.kind = "enum" THEN reportObjectGetOwnProperties(cs, fname, pbs, a)
                   ELSE reportPropertyAccess(cs, fname, pbs, a)
       IN  reportWriteConflicts(fname, next, pbs, Tail(accesses))

(***************************************************************************)
(* checkThatFunctionsAreIndependent: the independence check                *)
(***************************************************************************)
\* this.functionExpressions, filled in by the serializer
functionExpressions == [f \in Funs |-> f]
\* line 318
fun1NameOf(fun1) ==
  IF fun1 \in DOMAIN functionExpressions THEN functionExpressions[fun1] ELSE "(unknown function)"

\* JavaScript values of line 324: a result is an object, and !object is false
InstanceOfCompletion(v) == v \in {"AbruptCompletion", "PossiblyNormalCompletion"}
InstanceOfPossiblyNormalCompletion(v) == v = "PossiblyNormalCompletion"
LogicalNot(v) == IF v \in {"false", "undefined"} THEN "true" ELSE "false"
\* line 324: e1.result instanceof Completion && !e1.result instanceof PossiblyNormalCompletion,
\* where !e1.result instanceof C is (!e1.result) instanceof C
mayTerminateAbruptly(result) ==
  InstanceOfCompletion(result) /\ InstanceOfPossiblyNormalCompletion(LogicalNot(result))

\* the inner loop without the test of line 335
NextFun2_WithSelf(i, j) == IF j < Len(additionalFunctions) THEN j + 1 ELSE 0

\* lines 334-335: the position of the first function after position j that is
\* not fun1, or 0
NextFun2(i, j) ==
  LET later == {k \in (j + 1)..Len(additionalFunctions) :
                  additionalFunctions[k] # additionalFunctions[i]}
  IN  IF later = {} THEN 0 ELSE CHOOSE k \in later : \A m \in later : k <= m

\* lines 316-335: head of the outer loop, up to the first fun2 that is not fun1
CheckFun1 ==
  /\ pc = "verify"
  /\ fun2Index = 0
  /\ IF fun1Index > Len(additionalFunctions)
     THEN /\ pc' = "report"
          /\ UNCHANGED <<log, fun1Index, fun2Index>>
     ELSE LET fun1 == additionalFunctions[fun1Index]
          IN  IF ~MapHas(writeEffects, fun1)
              THEN /\ log' = Append(log, Violated(321))
                   /\ pc' = "aborted"
                   /\ UNCHANGED <<fun1Index, fun2Index>>
              ELSE IF mayTerminateAbruptly(MapGet(writeEffects, fun1).result)
                   THEN /\ log' = log \o <<Diagnostic("PP1002", fun1NameOf(fun1), NoLoc),
                                           Throw("FatalError")>>
                        /\ pc' = "aborted"
                        /\ UNCHANGED <<fun1Index, fun2Index>>
                   ELSE /\ fun2Index' = NextFun2(fun1Index, 0)
                        /\ fun1Index' = IF fun2Index' = 0 THEN fun1Index + 1 ELSE fun1Index
                        /\ UNCHANGED <<log, pc>>
  /\ UNCHANGED <<fnParams, optimizedFunctions, writeEffects, optimizedFunctionId,
                 additionalFunctionsToProcess, additionalFunctions, additionalFunctionStack,
                 frames, effects, applied, behaviour, globals, conflicts, observed, scope, calls, hooks,
                 serializerVars>>

\* lines 343-349 calling reportFn with no effects applied
replayBaseline_Global(fun2Effects) == NoFun

\* lines 343-349: the function whose effects are applied around reportFn
replayBaseline(fun2Effects) ==
  IF fun2Effects.parentAdditionalFunction # NoFun
  THEN fun2Effects.parentAdditionalFunction
  ELSE NoFun

\* lines 336-350: one replay of fun2 against the writes of fun1, then on to the
\* next fun2 that is not fun1
ReplayFun2 ==
  /\ pc = "verify"
  /\ fun2Index >= 1
  /\ LET fun1 == additionalFunctions[fun1Index]
         e1 == MapGet(writeEffects, fun1)
         fun2 == additionalFunctions[fun2Index]
         call == callOfFunction(fnParams[fun2], "undefined")
         parent == IF MapHas(writeEffects, fun2)
                   THEN MapGet(writeEffects, fun2).parentAdditionalFunction
                   ELSE NoFun
     IN  IF ~MapHas(writeEffects, fun2) \/ (parent # NoFun /\ ~MapHas(writeEffects, parent))
         THEN /\ log' = Append(log, Violated(342))
              /\ pc' = "aborted"
              /\ UNCHANGED <<conflicts, fun1Index, fun2Index, calls, hooks>>
         ELSE IF call.threw
         THEN /\ log' = log \o <<Diagnostic("PP1005", fun2, NoLoc), Throw("FatalError")>>
              /\ pc' = "aborted"
              /\ UNCHANGED <<conflicts, fun1Index, fun2Index, calls, hooks>>
         ELSE \E threw \in ReplayThrows :
              LET replayed == Event("replay", fun2, fun1,
                                    replayBaseline(MapGet(writeEffects, fun2)), Len(call.args))
              IN  /\ conflicts' = reportWriteConflicts(fun1NameOf(fun1), conflicts,
                                                       e1.modifiedProperties, behaviour[fun2])
                  /\ hooks' = restoreHooks(hooks, installHooks(fun1NameOf(fun1)))
                  /\ calls' = [calls EXCEPT ![fun2].replay = <<call>>,
                                            ![fun2].replayApplied =
                                               <<{replayBaseline(MapGet(writeEffects, fun2))} \ {NoFun}>>]
                  /\ IF threw
                     THEN /\ log' = log \o <<replayed, Throw("FatalError")>>
                          /\ pc' = "aborted"
                          /\ UNCHANGED <<fun1Index, fun2Index>>
                     ELSE /\ log' = Append(log, replayed)
                          /\ fun2Index' = NextFun2(fun1Index, fun2Index)
                          /\ fun1Index' = IF fun2Index' = 0 THEN fun1Index + 1 ELSE fun1Index
                          /\ UNCHANGED pc
  /\ UNCHANGED <<fnParams, optimizedFunctions, writeEffects, optimizedFunctionId,
                 additionalFunctionsToProcess, additionalFunctions, additionalFunctionStack,
                 frames, effects, applied, behaviour, globals, observed, scope,
                 serializerVars>>

\* line 353 handing over the first recorded conflict only
values_FirstOnly(cs) == IF cs = <<>> THEN <<>> ELSE <<cs[1].diagnostic>>

\* line 353: conflicts.values()
values(cs) == [i \in 1..Len(cs) |-> cs[i].diagnostic]

\* lines 352-355
Report ==
  /\ pc = "report"
  /\ IF Len(conflicts) > 0
     THEN /\ log' = log \o values(conflicts) \o <<Throw("FatalError")>>
          /\ pc' = "aborted"
     ELSE /\ pc' = "done"
          /\ UNCHANGED log
  /\ UNCHANGED <<fnParams, optimizedFunctions, writeEffects, optimizedFunctionId,
                 additionalFunctionsToProcess, additionalFunctions, additionalFunctionStack,
                 frames, effects, applied, behaviour, globals, conflicts, fun1Index,
                 fun2Index, observed, scope, calls, hooks,
                 serializerVars>>

\* lines 358-360, called once checkThatFunctionsAreIndependent has returned or thrown
getAdditionalFunctionValuesToEffects ==
  /\ pc \in {"done", "aborted"}
  /\ observed = NotObserved
  /\ observed' = writeEffects
  /\ UNCHANGED <<fnParams, optimizedFunctions, writeEffects, optimizedFunctionId,
                 additionalFunctionsToProcess, additionalFunctions, additionalFunctionStack,
                 frames, effects, applied, behaviour, globals, conflicts, fun1Index,
                 fun2Index, log, pc, scope, calls, hooks,
                 serializerVars>>

Next ==
  \/ Start \/ TopLevelNext \/ EvaluatePure \/ Commit \/ NestedNext \/ NestedReturn
  \/ TopLevelDone \/ CheckFun1 \/ ReplayFun2 \/ Report \/ getAdditionalFunctionValuesToEffects

\* runs that draw inputs other than the plain case, and no heap accesses
Spec == Init /\ [][Next]_vars
\* runs that draw heap accesses, and plain inputs otherwise
SpecConflicts == InitConflicts /\ [][Next]_vars
\* runs that draw heap accesses to objects that refuse serialization
SpecRefusal == InitRefusal /\ [][Next]_vars

\* ---------------------------------------------------------------------------
\* ResidualReactElementSerializer (src/serializer/ResidualReactElementSerializer.js),
\* with reactOutput "create-element", the constructor's default (line 61)
\* ---------------------------------------------------------------------------

MaxElements == 2   \* React elements one run serializes
MaxParts == 2      \* attributes plus children of the React elements of one run
MaxWaits == 1      \* values of one run that wait on a dependency

NoReason == "undefined"    \* getReasonToWaitForDependencies returned undefined
Reasons == {"d1", "d2"}    \* the dependencies a value can wait on

NoId == [name |-> "undefined", n |-> 0]
NoExpr == [of |-> 0, part |-> "undefined", index |-> 0]
NoNode == [callee |-> NoId, type |-> NoExpr, hasProps |-> FALSE, props |-> <<>>,
           nullProps |-> FALSE, children |-> <<>>]

\* residualHeapSerializer.getSerializeObjectIdentifier(value), line 135
getSerializeObjectIdentifier(e) == [name |-> "element", n |-> e]
\* residualHeapSerializer.serializeValue(createElement), line 147
originalCreateElementIdentifier == [name |-> "createElement", n |-> 0]
\* t.identifier(nameGenerator.generate()): the n-th name of one generator, lines 92, 153
generate(generator, n) == [name |-> generator, n |-> n + 1]
\* residualHeapSerializer.serializeValue(v) for the value in one part of element e
serializeValue(e, part, index) == [of |-> e, part |-> part, index |-> index]

\* _createReactElement, _createReactElementAttribute, _createReactElementChild
createReactElement(value) ==
  [attributes |-> <<>>, children |-> <<>>, declared |-> FALSE, type |-> NoExpr, value |-> value]
createReactElementAttribute == [expr |-> NoExpr, key |-> "undefined", type |-> "PENDING"]
createReactElementChild == [expr |-> NoExpr, type |-> "PENDING"]

\* the attributes of an element in the order of _serializeReactElementAttributes:
\* key, ref, then props as one spread or property by property
AttributeRank(kind) ==
  CASE kind = "key" -> 1 [] kind = "ref" -> 2 [] kind = "spread" -> 3 [] kind = "prop" -> 4
AttributeLists ==
  {as \in UNION {[1..n -> {"key", "ref", "spread", "prop"}] : n \in 0..MaxParts} :
     \A i \in 1..(Len(as) - 1) :
        \/ as[i] = "prop" /\ as[i + 1] = "prop"
        \/ AttributeRank(as[i]) < AttributeRank(as[i + 1]) /\ as[i] # "spread"}
\* the names of the props of an element, by position in propsValue.properties
PropNames == <<"a", "b-c", "d", "e-f">>
attributeKey(kind, index) == IF kind = "prop" THEN PropNames[index] ELSE kind

\* the dependencies of the parts of one element value
DepsOf(v) == <<v.deps.value, v.deps.type>> \o v.deps.attributes \o v.deps.children
NumWaits(vs) ==
  Cardinality({<<e, i>> \in (1..Len(vs)) \X (1..(2 + MaxParts)) :
                 i <= Len(DepsOf(vs[e])) /\ DepsOf(vs[e])[i] # NoReason})
NumParts(vs) ==
  Cardinality({<<e, i>> \in (1..Len(vs)) \X (1..MaxParts) :
                 i <= Len(vs[e].attributes) + vs[e].children})
UsedReasons(vs) ==
  {DepsOf(vs[e])[i] : <<e, i>> \in {p \in (1..Len(vs)) \X (1..(2 + MaxParts)) :
                                      p[2] <= Len(DepsOf(vs[p[1]]))}} \ {NoReason}

\* shouldHoist, lines 131-133: isReferencedOnlyByAdditionalFunction(value) is
\* undefined outside the additional functions
ShouldHoist == IF scope = "hoisting" THEN BOOLEAN ELSE {FALSE}

\* the dependencies of an element with the attributes as and m children: the
\* slots ws wait, on the reasons rs; slot 1 is the element value, slot 2 its type
Deps(as, m, ws, rs) ==
  LET dep(i) == IF i \in ws THEN rs[i] ELSE NoReason
  IN  [value |-> dep(1), type |-> dep(2),
       attributes |-> [i \in 1..Len(as) |-> dep(2 + i)],
       children |-> [i \in 1..m |-> dep(2 + Len(as) + i)]]

\* the React element values the heap serializer can hand to serializeReactElement
\* after the values vs, with the dependencies rel released: a value waits on a
\* dependency that is not released, and "d2" is in use only after "d1"
ElementValues(vs, rel) ==
  UNION {UNION {UNION {
    {[shouldHoist |-> h, attributes |-> as, children |-> m, deps |-> Deps(as, m, ws, rs)] :
       h \in ShouldHoist,
       rs \in {r \in [ws -> Reasons \ rel] :
                 \/ "d1" \in UsedReasons(vs) \cup {r[x] : x \in ws}
                 \/ "d2" \notin UsedReasons(vs) \cup {r[x] : x \in ws}}} :
    ws \in {w \in SUBSET (1..(2 + Len(as) + m)) :
              Cardinality(w) <= MaxWaits - NumWaits(vs)}} :
    m \in 0..(MaxParts - NumParts(vs) - Len(as))} :
    as \in {a \in AttributeLists : Len(a) <= MaxParts - NumParts(vs)}}

Serializer ==
  [lazilyHoistedNodes |-> lazilyHoistedNodes, reactElements |-> reactElements,
   elementValues |-> elementValues, waiting |-> waiting, released |-> released,
   emitted |-> emitted, nameGenerators |-> nameGenerators]

SetSerializer(s) ==
  /\ lazilyHoistedNodes' = s.lazilyHoistedNodes
  /\ reactElements' = s.reactElements
  /\ elementValues' = s.elementValues
  /\ waiting' = s.waiting
  /\ released' = s.released
  /\ emitted' = s.emitted
  /\ nameGenerators' = s.nameGenerators

DepOf(s, e, part, index) ==
  LET d == s.elementValues[e].deps
  IN  CASE part = "value" -> d.value
        [] part = "type" -> d.type
        [] part = "attribute" -> d.attributes[index]
        [] part = "child" -> d.children[index]

\* emitter.getReasonToWaitForDependencies(value): the dependency of the value
\* until the emitter has released it
getReasonToWaitForDependencies(s, e, part, index) ==
  IF DepOf(s, e, part, index) \in s.released THEN NoReason ELSE DepOf(s, e, part, index)

\* emitter.emitAfterWaiting(reason, [value], callback)
emitAfterWaiting(s, reason, run, e, part, index) ==
  [s EXCEPT !.waiting = Append(@, [reason |-> reason, run |-> run, element |-> e,
                                   part |-> part, index |-> index])]

\* emitter.emit(statement)
emit(s, statement) == [s EXCEPT !.emitted = Append(@, statement)]

\* t.objectProperty(key, expr) and t.spreadProperty(expr), lines 372-386
astAttribute(attribute) ==
  IF attribute.type = "SPREAD"
  THEN [node |-> "spreadProperty", key |-> "undefined", keyNode |-> "undefined",
        expr |-> attribute.expr]
  ELSE [node |-> "objectProperty", key |-> attribute.key,
        keyNode |-> IF \E i \in {2, 4} : attribute.key = PropNames[i]
                    THEN "stringLiteral" ELSE "identifier",
        expr |-> attribute.expr]

IsNotPending(part) == part.type # "PENDING"
\* the attributes and the children that lines 372-386 and 396-400 do not skip
astAttributes(attributes) ==
  LET known == SelectSeq(attributes, IsNotPending)
  IN  [i \in 1..Len(known) |-> astAttribute(known[i])]
astChildren(children) ==
  LET known == SelectSeq(children, IsNotPending)
  IN  [i \in 1..Len(known) |-> known[i].expr]

\* _serializeReactElementToCreateElement, lines 359-408
serializeReactElementToCreateElement(reactElement, createElementIdentifier) ==
  [callee |-> createElementIdentifier,
   type |-> reactElement.type,
   hasProps |-> Len(reactElement.attributes) # 0,
   props |-> astAttributes(reactElement.attributes),
   nullProps |-> Len(reactElement.children) # 0 /\ Len(reactElement.attributes) = 0,
   children |-> astChildren(reactElement.children)]

Statement(kind, id, callee, arguments, node) ==
  [kind |-> kind, id |-> id, callee |-> callee, arguments |-> arguments, node |-> node]

\* _emitHoistedReactElement, lines 83-113
emitHoistedReactElement(s, id, reactElement, hoistedCreateElementIdentifier, original) ==
  LET funcId == generate("function", s.nameGenerators.function)
      s1 == IF s.lazilyHoistedNodes = <<>>
            THEN emit([s EXCEPT !.nameGenerators.function = @ + 1,
                                !.lazilyHoistedNodes =
                                  <<[id |-> funcId,
                                     createElementIdentifier |-> hoistedCreateElementIdentifier,
                                     nodes |-> <<>>]>>],
                      Statement("guard", id, funcId, <<original>>, NoNode))
            ELSE s
  IN  [s1 EXCEPT !.lazilyHoistedNodes[1].nodes = Append(@, [id |-> id, astNode |-> reactElement])]

\* the callback of _emitReactElement, lines 142-187
emitReactElementCallback(s, e) ==
  LET shouldHoist == s.elementValues[e].shouldHoist
      id == getSerializeObjectIdentifier(e)
      first == s.lazilyHoistedNodes = <<>>
      hoistedCreateElementIdentifier ==
        IF ~shouldHoist THEN NoId
        ELSE IF first THEN generate("intrinsic", s.nameGenerators.intrinsic)
        ELSE s.lazilyHoistedNodes[1].createElementIdentifier
      s1 == IF shouldHoist /\ first THEN [s EXCEPT !.nameGenerators.intrinsic = @ + 1] ELSE s
      createElementIdentifier ==
        IF shouldHoist THEN hoistedCreateElementIdentifier ELSE originalCreateElementIdentifier
      reactElementAstNode ==
        serializeReactElementToCreateElement(s.reactElements[e], createElementIdentifier)
  IN  IF shouldHoist
      THEN emitHoistedReactElement(s1, id, reactElementAstNode,
                                   hoistedCreateElementIdentifier, originalCreateElementIdentifier)
      ELSE IF s.reactElements[e].declared
      THEN emit(s1, Statement("assign", id, NoId, <<>>, reactElementAstNode))
      ELSE emit([s1 EXCEPT !.reactElements[e].declared = TRUE],
                Statement("var", id, NoId, <<>>, reactElementAstNode))

\* _emitReactElement, lines 129-190: emitter.emitNowOrAfterWaitingForDependencies
\* runs the callback now unless the element value waits on a dependency
emitReactElement(s, e) ==
  LET reason == getReasonToWaitForDependencies(s, e, "value", 0)
  IN  IF reason # NoReason
      THEN emitAfterWaiting(s, reason, "emit", e, "value", 0)
      ELSE emitReactElementCallback(s, e)

\* the func of one part: lines 228-237, 248-253, 259-264, 270-274, 292-297, 459-464
serialize(s, e, part, index) ==
  LET expr == serializeValue(e, part, index)
      kind == s.elementValues[e].attributes[index]
  IN  CASE part = "type" -> [s EXCEPT !.reactElements[e].type = expr]
        [] part = "attribute" ->
             [s EXCEPT !.reactElements[e].attributes[index] =
                IF kind = "spread"
                THEN [expr |-> expr, key |-> "undefined", type |-> "SPREAD"]
                ELSE [expr |-> expr, key |-> attributeKey(kind, index), type |-> "PROPERTY"]]
        [] part = "child" ->
             [s EXCEPT !.reactElements[e].children[index] = [expr |-> expr, type |-> "NORMAL"]]

\* the callback _serializeNowOrAfterWaitingForDependencies hands to the emitter,
\* lines 205-208
serializeAndEmit_NoEmit(s, e, part, index) == serialize(s, e, part, index)
serializeAndEmit(s, e, part, index) == emitReactElement(serialize(s, e, part, index), e)

\* _serializeNowOrAfterWaitingForDependencies, lines 192-212
serializeNowOrAfterWaitingForDependencies(s, e, part, index) ==
  LET reason == getReasonToWaitForDependencies(s, e, part, index)
  IN  IF reason # NoReason
      THEN emitAfterWaiting(s, reason, "serialize", e, part, index)
      ELSE serialize(s, e, part, index)

\* _serializeReactElementType, lines 224-238
serializeReactElementType(s, e) == serializeNowOrAfterWaitingForDependencies(s, e, "type", 0)

\* _serializeReactElementAttributes, lines 240-303: attributes from index on; the
\* attribute is in the list before its func runs, as no func reads the list
RECURSIVE serializeReactElementAttributes(_, _, _)
serializeReactElementAttributes(s, e, index) ==
  IF index > Len(s.elementValues[e].attributes) THEN s
  ELSE serializeReactElementAttributes(
         serializeNowOrAfterWaitingForDependencies(
           [s EXCEPT !.reactElements[e].attributes = Append(@, createReactElementAttribute)],
           e, "attribute", index),
         e, index + 1)

\* _serializeReactElementChildren and _serializeReactElementChild, lines 305-339
\* and 457-466: children from index on
RECURSIVE serializeReactElementChildren(_, _, _)
serializeReactElementChildren(s, e, index) ==
  IF index > s.elementValues[e].children THEN s
  ELSE serializeReactElementChildren(
         serializeNowOrAfterWaitingForDependencies(
           [s EXCEPT !.reactElements[e].children = Append(@, createReactElementChild)],
           e, "child", index),
         e, index + 1)

\* serializeReactElement, lines 341-349
serializeReactElement ==
  /\ scope \in {"react", "hoisting"}
  /\ Len(reactElements) < MaxElements
  /\ \E val \in ElementValues(elementValues, released) :
       LET e == Len(reactElements) + 1
           s0 == [Serializer EXCEPT !.elementValues = Append(@, val),
                                    !.reactElements = Append(@, createReactElement(e))]
           s1 == serializeReactElementType(s0, e)
           s2 == serializeReactElementAttributes(s1, e, 1)
           s3 == serializeReactElementChildren(s2, e, 1)
       IN  SetSerializer(emitReactElement(s3, e))
  /\ UNCHANGED <<functionsVars, returned>>

RECURSIVE runCallbacks(_, _)
runCallbacks(s, callbacks) ==
  IF callbacks = <<>> THEN s
  ELSE LET c == Head(callbacks)
       IN  runCallbacks(IF c.run = "serialize"
                        THEN serializeAndEmit(s, c.element, c.part, c.index)
                        ELSE emitReactElementCallback(s, c.element),
                        Tail(callbacks))

\* the emitter releases one dependency and runs the callbacks that waited on
\* it, in the order of their registration
ReleaseDependency ==
  /\ scope \in {"react", "hoisting"}
  /\ \E reason \in UsedReasons(elementValues) \ released :
       LET IsReady(c) == c.reason = reason
           IsNotReady(c) == c.reason # reason
       IN  SetSerializer(runCallbacks([Serializer EXCEPT !.released = @ \cup {reason},
                                                         !.waiting = SelectSeq(@, IsNotReady)],
                                      SelectSeq(waiting, IsReady)))
  /\ UNCHANGED <<functionsVars, returned>>

HoistedEntry(kind, id, params, body) ==
  [kind |-> kind, id |-> id, params |-> params, body |-> body]

\* the entries of serializeLazyHoistedNodes, lines 469-485
hoistedEntries(hoisted) ==
  IF hoisted = <<>> THEN <<>>
  ELSE <<HoistedEntry("factory", hoisted[1].id, <<hoisted[1].createElementIdentifier>>,
                      hoisted[1].nodes)>>
       \o [i \in 1..Len(hoisted[1].nodes) |->
             HoistedEntry("var", hoisted[1].nodes[i].id, <<>>, <<>>)]

\* serializeLazyHoistedNodes, lines 468-487; the call that finds nothing hoisted
\* is taken first, and once after each call that found something
serializeLazyHoistedNodes ==
  /\ scope \in {"react", "hoisting"}
  /\ IF lazilyHoistedNodes = <<>>
     THEN IF returned = <<>> THEN TRUE ELSE returned[Len(returned)] # <<>>
     ELSE TRUE
  /\ returned' = Append(returned, hoistedEntries(lazilyHoistedNodes))
  /\ lazilyHoistedNodes' = <<>>
  /\ UNCHANGED <<functionsVars, reactElements, elementValues, waiting, released, emitted,
                 nameGenerators>>

NextReact == serializeReactElement \/ ReleaseDependency \/ serializeLazyHoistedNodes

\* runs that serialize React elements outside the additional functions
SpecReact == InitReact /\ [][NextReact]_vars
\* runs that serialize React elements of an additional function
SpecHoisting == InitHoisting /\ [][NextReact]_vars

(***************************************************************************)
(* Properties                                                              *)
(***************************************************************************)
WritesOf(f) == IF MapHas(writeEffects, f) THEN MapGet(writeEffects, f).modifiedProperties ELSE {}
ParentOf(f) ==
  IF MapHas(writeEffects, f) THEN MapGet(writeEffects, f).parentAdditionalFunction ELSE NoFun
Unrelated(f, g) == f # g /\ ParentOf(f) # g /\ ParentOf(g) # f
\* access a concerns a property binding of pbs, or an object one of them belongs to
Touches(a, pbs) ==
  IF a.kind = "enum" THEN \E pb \in pbs : pb[1] = a.ob ELSE <<a.ob, a.key>> \in pbs
\* the replays made so far; replay i is that of log[i].fn against the writes of log[i].code
Replays == {i \in 1..Len(log) : log[i].ev = "replay"}
HitsAt(i, l) ==
  \E k \in 1..Len(behaviour[log[i].fn]) :
     /\ behaviour[log[i].fn][k].loc = l
     /\ Touches(behaviour[log[i].fn][k], WritesOf(log[i].code))
ReadsAt(i, l) ==
  \E k \in 1..Len(behaviour[log[i].fn]) :
     /\ behaviour[log[i].fn][k].loc = l
     /\ behaviour[log[i].fn][k].kind = "read"
     /\ Touches(behaviour[log[i].fn][k], WritesOf(log[i].code))
ConflictsAt(l) ==
  {i \in 1..Len(log) : log[i].ev = "handleError" /\ log[i].code = "PP1003" /\ log[i].loc = l}
FirstWriterAt(l) ==
  log[CHOOSE i \in Replays : HitsAt(i, l) /\ \A j \in Replays : HitsAt(j, l) => i <= j].code
Finished == pc \in {"done", "aborted"}
EndsWithFatalError == log # <<>> /\ log[Len(log)] = Throw("FatalError")

HasAbruptRecord ==
  \E i \in 1..Len(writeEffects) : writeEffects[i].result = "AbruptCompletion"

\* C2: when the record of a candidate holds a definite abrupt completion, the
\* check reports "may terminate abruptly" (PP1002) and aborts, so it never gets
\* past its loops with such a record, and it reports no conflict
C2_AbruptCompletionIsFatal == (pc \in {"report", "done"}) => ~HasAbruptRecord

Keys(table) == [i \in 1..Len(table) |-> table[i].value]

\* C3: the table holds at most one record per function value, and a capture
\* that reaches the table for a function value that is already a key reports
\* PP1009 and, unless the answer is "Recover", throws and leaves the table alone
C3_DoubleOptimizationReported ==
  [][(pc = "commit" /\ MapHas(writeEffects, frames[Len(frames)].value)) =>
        /\ Len(log') > Len(log)
        /\ log'[Len(log) + 1].ev = "handleError"
        /\ log'[Len(log) + 1].code = "PP1009"
        /\ log'[Len(log) + 1].fn = frames[Len(frames)].value
        /\ (log'[Len(log) + 1].answer # "Recover" =>
              /\ pc' = "aborted"
              /\ log'[Len(log')] = Throw("FatalError")
              /\ writeEffects' = writeEffects)
        /\ NoDup(Keys(writeEffects'))]_vars

\* a run that completes after the answer "Recover" to a PP1009 error
C3_Witness ==
  /\ pc = "done"
  /\ \E i \in 1..Len(log) :
       log[i].ev = "handleError" /\ log[i].code = "PP1009" /\ log[i].answer = "Recover"

PairwiseDisjointWrites == \A f, g \in Funs : f # g => WritesOf(f) \cap WritesOf(g) = {}
NoCrossAccess ==
  \A f, g \in Funs :
     f # g => \A k \in 1..Len(behaviour[g]) : ~Touches(behaviour[g][k], WritesOf(f))

C5_ParentWritesAreNoConflict ==
  \A c \in 1..Len(conflicts) :
     \E i \in Replays :
        /\ fun1NameOf(log[i].code) = conflicts[c].diagnostic.fn
        /\ HitsAt(i, conflicts[c].value)
        /\ ParentOf(log[i].fn) # log[i].code

\* C6: the realm never evaluates a candidate that has a formal parameter that
\* is not an identifier: building its call reports PP1005 and throws
C6_PatternParameterRejected ==
  \A i \in 1..Len(log) :
     log[i].ev = "evaluatePure" =>
        \A k \in 1..Len(fnParams[log[i].fn]) : fnParams[log[i].fn][k] = "id"

ReplayedPairs(n) == {<<log[i].code, log[i].fn>> : i \in {j \in Replays : j <= n}}
AllPairs == {pr \in Range(additionalFunctions) \X Range(additionalFunctions) : pr[1] # pr[2]}

\* C7: a conflict reaches the error handler only after every ordered pair of
\* distinct candidates has been replayed; when conflicts were recorded each of
\* them is reported once and one fatal error is thrown after them; a run
\* without recorded conflicts reports none
C7_ConflictsReportedTogether ==
  /\ \A i \in 1..Len(log) :
        (log[i].ev = "handleError" /\ log[i].code = "PP1003") =>
           /\ ReplayedPairs(i) = AllPairs
           /\ \E c \in 1..Len(conflicts) : conflicts[c].diagnostic = log[i]
  /\ (pc = "report" => ReplayedPairs(Len(log)) = AllPairs)
  /\ (Finished /\ conflicts # <<>>) =>
        /\ pc = "aborted"
        /\ \A c \in 1..Len(conflicts) :
              Cardinality({i \in 1..Len(log) : log[i] = conflicts[c].diagnostic}) = 1
        /\ Cardinality({i \in 1..Len(log) : log[i].ev = "throw"}) = 1
        /\ EndsWithFatalError
  /\ (Finished /\ conflicts = <<>>) => CountCode(log, "PP1003") = 0

\* a run that ends after it has recorded conflicts at two locations
C7_Witness == pc = "aborted" /\ Len(conflicts) >= 2 /\ Cardinality(AllPairs) >= 2

\* C8: the table that getAdditionalFunctionValuesToEffects returns after the
\* check has thrown holds no record
C8_NoTableAfterAbort ==
  (pc = "aborted" /\ observed # NotObserved) => observed = <<>>

\* C9: the realm does not evaluate a function value that is already a key of
\* the table: the PP1009 error comes before the evaluation
C9_ErrorBeforeCapture ==
  pc = "commit" => ~MapHas(writeEffects, frames[Len(frames)].value)

\* C10: the stack holds the function values of the captures in progress,
\* outermost first; it is empty between two top-level captures and when the
\* capture loop has ended; the invariants of lines 305 and 312 never fail
C10_StackBalanced ==
  /\ (pc \in {"loop", "verify", "report", "done"}) => additionalFunctionStack = <<>>
  /\ (pc \in {"eval", "commit", "nested"}) =>
        additionalFunctionStack = [i \in 1..Len(frames) |-> frames[i].value]
  /\ \A i \in 1..Len(log) :
        ~(log[i].ev = "throw" /\ log[i].code = "InvariantViolation" /\ log[i].n \in {305, 312})

\* the capture loop has ended after a capture nested in a nested capture
C10_Witness ==
  /\ pc = "verify"
  /\ additionalFunctionStack = <<>>
  /\ \E f, g \in Funs : f # g /\ ParentOf(f) = g /\ ParentOf(g) \in Funs

CaptureEvents ==
  {"__optimize", "beginOptimizingFunction", "evaluatePure", "endOptimizingFunction"}

\* C11: no capture step follows a replay, and from the first replay on no
\* capture is in progress or pending, every capture begun has ended, and every
\* member of the candidate set has a record in the table
C11_CaptureBeforeReplay ==
  /\ \A i \in Replays : \A j \in 1..Len(log) : j > i => log[j].ev \notin CaptureEvents
  /\ (pc = "verify" \/ Replays # {}) =>
        /\ frames = <<>>
        /\ additionalFunctionsToProcess = <<>>
        /\ CountEv(log, "beginOptimizingFunction") = CountEv(log, "endOptimizingFunction")
        /\ \A f \in Range(additionalFunctions) : MapHas(writeEffects, f)

\* a replay has been made in a run that captured a nested candidate
C11_Witness ==
  /\ Replays # {}
  /\ \E i \in 1..Len(writeEffects) : writeEffects[i].parentAdditionalFunction \in Funs
  /\ Len(additionalFunctions) >= 3

\* C12: the conflicts hold one diagnostic per location; a step of the check
\* never removes or replaces a recorded diagnostic; the diagnostic of a
\* location names the writer of the first replay that touched its write-set
\* at that location
C12_OneDiagnosticPerLocation ==
  [][/\ NoDup([c \in 1..Len(conflicts') |-> conflicts'[c].value])
     /\ Len(conflicts') >= Len(conflicts)
     /\ \A c \in 1..Len(conflicts) : conflicts'[c] = conflicts[c]
     /\ \A c \in 1..Len(conflicts') :
           /\ conflicts'[c].diagnostic.loc = conflicts'[c].value
           /\ \E i \in 1..Len(log') :
                 /\ log'[i].ev = "replay"
                 /\ conflicts'[c].diagnostic.fn = fun1NameOf(log'[i].code)
                 /\ \E k \in 1..Len(behaviour[log'[i].fn]) :
                       /\ behaviour[log'[i].fn][k].loc = conflicts'[c].value
                       /\ Touches(behaviour[log'[i].fn][k], WritesOf(log'[i].code))
                 /\ \A j \in 1..(i - 1) :
                       log'[j].ev = "replay" =>
                          \A k \in 1..Len(behaviour[log'[j].fn]) :
                             behaviour[log'[j].fn][k].loc = conflicts'[c].value =>
                                ~Touches(behaviour[log'[j].fn][k], WritesOf(log'[j].code))]_vars

\* two replays against different writers have touched the write-set of their
\* writer at one location, the second by an enumeration
C12_Witness ==
  \E i, j \in Replays, l \in Locs :
     /\ i < j /\ log[i].code # log[j].code
     /\ HitsAt(i, l) /\ HitsAt(j, l)
     /\ \E k \in 1..Len(behaviour[log[j].fn]) :
          behaviour[log[j].fn][k].loc = l /\ behaviour[log[j].fn][k].kind = "enum"
     /\ Len(conflicts) = 1

\* C13: a step never removes a record from the table nor replaces the record
\* of a function value
C13_TableAppendOnly ==
  [][/\ Len(writeEffects') >= Len(writeEffects)
     /\ \A i \in 1..Len(writeEffects) : writeEffects'[i] = writeEffects[i]]_vars

\* the list that was pending when the outermost capture in progress began
PendingBeforeCapture ==
  IF frames = <<>> THEN optimizedFunctions ELSE frames[1].oldRealmOptimizedFunctions

\* C14: when a capture throws, realm.optimizedFunctions still holds every
\* entry it held before the capture began
C14_ListRestoredOnError ==
  [][(pc \in {"loop", "eval", "commit", "nested"} /\ pc' = "aborted") =>
        \A i \in 1..Len(PendingBeforeCapture) :
           /\ MapHas(optimizedFunctions', PendingBeforeCapture[i].value)
           /\ MapGet(optimizedFunctions', PendingBeforeCapture[i].value) = PendingBeforeCapture[i]]_vars

\* the function values passed to __optimize after position b of the log
RegisteredSince(b) ==
  {log[i].fn : i \in {j \in 1..Len(log) : j > b /\ log[j].ev = "__optimize"}}
BeginIndex(id) ==
  CHOOSE i \in 1..Len(log) : log[i].ev = "beginOptimizingFunction" /\ log[i].n = id

\* C15: when _withEmptyOptimizedFunctionList returns, realm.optimizedFunctions
\* holds the function values registered since the capture began and those of
\* the list it replaced, every entry of the replaced list as it was, and every
\* other entry as the capture left it
C15_ListMergedOnReturn ==
  [][(pc = "nested" /\ frames[Len(frames)].newOptFuncs = <<>> /\ pc' \in {"loop", "nested"}) =>
        LET top == frames[Len(frames)]
            old == top.oldRealmOptimizedFunctions
        IN  /\ Range(Keys(optimizedFunctions')) =
                 RegisteredSince(BeginIndex(top.currentOptimizedFunctionId)) \cup Range(Keys(old))
            /\ NoDup(Keys(optimizedFunctions'))
            /\ \A i \in 1..Len(old) : MapGet(optimizedFunctions', old[i].value) = old[i]
            /\ \A i \in 1..Len(optimizedFunctions) :
                  ~MapHas(old, optimizedFunctions[i].value) =>
                     MapGet(optimizedFunctions', optimizedFunctions[i].value) = optimizedFunctions[i]]_vars

\* a capture has returned to the top level after the function value it
\* captured was registered again with another argument model
C15_Witness ==
  /\ pc = "loop"
  /\ \E i \in 1..Len(optimizedFunctions), j \in 1..Len(log) :
        /\ log[j].ev = "__optimize"
        /\ log[j].fn = optimizedFunctions[i].value
        /\ log[j].code # optimizedFunctions[i].argModel
        /\ \E k \in 1..(j - 1) : log[k].ev = "beginOptimizingFunction"

EvaluationIndex(id) ==
  CHOOSE i \in 1..Len(log) : log[i].ev = "evaluatePure" /\ log[i].n = id
\* the function values passed to __optimize by the evaluation of capture id
\* itself: the __optimize calls that follow its evaluatePure with no other
\* call in between
OwnRegistrations(id) ==
  LET b == EvaluationIndex(id)
  IN  {log[i].fn : i \in {j \in 1..Len(log) :
                            /\ j > b
                            /\ \A k \in (b + 1)..j : log[k].ev = "__optimize"}}
Evaluated(k) == k < Len(frames) \/ pc \in {"commit", "nested"}

\* C16 as stated: the nested candidates of a capture were passed to __optimize
\* by the evaluation of that capture itself, and none of them is a function
\* value of the list that was pending when the capture began (a sibling, or a
\* registration of the capture of an earlier sibling)
C16_NestedNeverPendingBefore ==
  \A k \in 1..Len(frames) :
     \A i \in 1..Len(frames[k].newOptFuncs) :
        /\ frames[k].newOptFuncs[i].value \in OwnRegistrations(frames[k].currentOptimizedFunctionId)
        /\ ~MapHas(frames[k].oldRealmOptimizedFunctions, frames[k].newOptFuncs[i].value)

\* C16, amended: the nested candidates a capture still has to process, and the
\* candidate whose capture is nested directly in it, were passed to __optimize
\* by the evaluation of that capture itself
C16_NestedAttributedToCapture ==
  \A k \in 1..Len(frames) :
     /\ frames[k].newOptFuncs # <<>> => Evaluated(k)
     /\ \A i \in 1..Len(frames[k].newOptFuncs) :
           frames[k].newOptFuncs[i].value \in OwnRegistrations(frames[k].currentOptimizedFunctionId)
     /\ k < Len(frames) =>
           frames[k + 1].value \in OwnRegistrations(frames[k].currentOptimizedFunctionId)

\* a capture has nested candidates to process while a sibling of it is pending
C16_Witness ==
  /\ pc = "nested"
  /\ Len(frames) = 1
  /\ frames[1].newOptFuncs # <<>>
  /\ additionalFunctionsToProcess # <<>>
  /\ Len(frames[1].oldRealmOptimizedFunctions) >= 2

Revealer == IF Len(frames) >= 2 THEN frames[Len(frames) - 1].value ELSE NoFun
\* the first function of the table whose captured evaluation created f
Creator(f) ==
  LET creators == {i \in 1..Len(writeEffects) : f \in writeEffects[i].createdObjects}
  IN  IF creators = {} THEN NoFun
      ELSE writeEffects[CHOOSE i \in creators : \A j \in creators : i <= j].value

Begins == {i \in 1..Len(log) : log[i].ev = "beginOptimizingFunction"}
Ends == {i \in 1..Len(log) : log[i].ev = "endOptimizingFunction"}
HasEnded(i) == \E e \in Ends : log[e].n = log[i].n
EndOf(i) == CHOOSE e \in Ends : log[e].n = log[i].n

\* C18: captures are nested or disjoint, never interleaved: every capture ends
\* once, after it began, and a capture that begins while another is in
\* progress ends before that other does, so the capture of a candidate and of
\* all candidates nested in it has ended when the capture of a later candidate
\* of the same list begins; the captures in progress are those of the stack
C18_DepthFirst ==
  /\ \A i, j \in Begins : i # j => log[i].n # log[j].n
  /\ \A e, d \in Ends : e # d => log[e].n # log[d].n
  /\ \A e \in Ends : \E i \in Begins : i < e /\ log[i].n = log[e].n /\ log[i].fn = log[e].fn
  /\ \A i, j \in Begins :
        (i < j /\ HasEnded(i) /\ EndOf(i) > j) => (HasEnded(j) /\ EndOf(j) < EndOf(i))
  /\ pc # "aborted" =>
        /\ Cardinality({i \in Begins : ~HasEnded(i)}) = Len(frames)
        /\ \A i \in Begins :
              ~HasEnded(i) =>
                 LET k == Cardinality({j \in Begins : j <= i /\ ~HasEnded(j)})
                 IN  k <= Len(frames) /\ frames[k].currentOptimizedFunctionId = log[i].n

\* the captures have ended of a candidate, of a candidate nested in it, and
\* of a candidate that began after the first one ended
C18_Witness ==
  \E i, j, k \in Begins :
     /\ i < j /\ j < k
     /\ HasEnded(i) /\ HasEnded(j) /\ HasEnded(k)
     /\ EndOf(j) < EndOf(i)
     /\ EndOf(i) < k

\* C19: every replay of a candidate whose record names a parent runs with the
\* effects of that parent applied, every replay of a candidate whose record
\* names no parent runs with no effects applied, and between two replays no
\* effects are applied
C19_ReplayBaseline ==
  /\ \A i \in Replays :
        /\ MapHas(writeEffects, log[i].fn)
        /\ log[i].loc = MapGet(writeEffects, log[i].fn).parentAdditionalFunction
        /\ log[i].loc # NoFun => MapHas(writeEffects, log[i].loc)
  /\ pc \in {"verify", "report", "done"} => applied = <<>>

\* a completed run that replayed a candidate under the effects of its parent
\* and another candidate under no effects
C19_Witness ==
  /\ pc = "done"
  /\ \E i, j \in Replays : log[i].loc \in Funs /\ log[j].loc = NoFun

\* C20: the call replayed for a candidate is the call that was evaluated for
\* its capture: the same placeholder per formal parameter, with the same
\* shape and type, and the same receiver placeholder
C20_ReplayCallIsCaptureCall ==
  \A f \in Funs : calls[f].replay # <<>> => calls[f].replay = calls[f].capture

\* C21: a location holds a recorded conflict exactly when a replay made so far
\* performed at that location an access whose target is in the write-set of
\* the writer it was replayed against: a read of a property binding of the
\* write-set, or an enumeration of an object that has a property in it
C21_ConflictIffInWriteSet ==
  \A l \in Locs : MapHas(conflicts, l) <=> \E i \in Replays : HitsAt(i, l)

\* C22: a PP1007 warning that the error handler answered with anything but
\* "Recover" stops the capture: no record is stored for the evaluation that
\* reported it, no candidate is captured or replayed after it, and the check
\* does not complete
C22_EscalatedWarningAborts ==
  \A i \in 1..Len(log) :
     (log[i].ev = "handleError" /\ log[i].code = "PP1007" /\ log[i].answer # "Recover") =>
        pc \in {"commit", "aborted"}

\* C23: a step that replays a candidate, whether the replay returns or throws,
\* leaves realm.reportPropertyAccess and realm.reportObjectGetOwnProperties as
\* they were before it, and no conflict-recording hook is installed after any
\* step of the check
C23_HooksScopedToReplay ==
  [][/\ CountEv(log', "replay") > CountEv(log, "replay") => hooks' = hooks
     /\ hooks' = NoHooks]_vars

\* a replay has thrown after an earlier replay returned
C23_Witness ==
  /\ pc = "aborted"
  /\ Len(log) >= 3
  /\ log[Len(log)] = Throw("FatalError")
  /\ log[Len(log) - 1].ev = "replay"
  /\ \E i \in 1..(Len(log) - 2) : log[i].ev = "replay"
  /\ hooks = NoHooks

\* C24: the functions whose effects are applied in the global environment
\* while a candidate is replayed are those whose effects were applied while
\* its effects were captured
C24_SameBaseline ==
  \A f \in Funs :
     calls[f].replayApplied # <<>> => calls[f].replayApplied = calls[f].captureApplied

\* C25: the parent named by a record of the table is a key of the table and is
\* not the function value of the record, and the lookups of lines 341 and 344
\* never fail
C25_ParentResolvable ==
  /\ \A i \in 1..Len(writeEffects) :
        writeEffects[i].parentAdditionalFunction # NoFun =>
           /\ MapHas(writeEffects, writeEffects[i].parentAdditionalFunction)
           /\ writeEffects[i].parentAdditionalFunction # writeEffects[i].value
  /\ \A i \in 1..Len(log) :
        ~(log[i].ev = "throw" /\ log[i].code = "InvariantViolation" /\ log[i].n = 342)

\* a candidate has been replayed under the effects of its parent after the
\* record of that parent was stored a second time
C25_Witness ==
  /\ \E i \in Replays : log[i].loc \in Funs
  /\ \E i \in 1..Len(log) :
        /\ log[i].ev = "handleError" /\ log[i].code = "PP1009" /\ log[i].answer = "Recover"
        /\ \E r \in 1..Len(writeEffects) : writeEffects[r].parentAdditionalFunction = log[i].fn

\* the ids of the windows open after the tracer calls log[i..], innermost
\* last, and whether every endOptimizingFunction closed the innermost open
\* window and every evaluation ran in the window opened last
RECURSIVE OpenWindows(_, _)
OpenWindows(i, acc) ==
  IF i > Len(log) THEN acc
  ELSE LET e == log[i]
           innermost == IF acc.open = <<>> THEN -1 ELSE acc.open[Len(acc.open)]
       IN  IF e.ev = "beginOptimizingFunction"
           THEN OpenWindows(i + 1, [acc EXCEPT !.open = Append(@, e.n)])
           ELSE IF e.ev = "endOptimizingFunction"
           THEN IF innermost = e.n
                THEN OpenWindows(i + 1, [acc EXCEPT !.open = SubSeq(@, 1, Len(@) - 1)])
                ELSE [acc EXCEPT !.ok = FALSE]
           ELSE IF e.ev = "evaluatePure"
           THEN OpenWindows(i + 1, [acc EXCEPT !.ok = @ /\ innermost = e.n])
           ELSE OpenWindows(i + 1, acc)

\* C26: the tracer calls are balanced like brackets: no two windows share an
\* id, the evaluation of a candidate runs in the window opened last, every
\* endOptimizingFunction carries the id of the innermost open window, the open
\* windows are those of the captures in progress, and none is open once the
\* capture loop has ended
C26_TracerCallsBalanced ==
  LET w == OpenWindows(1, [ok |-> TRUE, open |-> <<>>])
      ids == [i \in 1..Len(log) |->
                IF log[i].ev = "beginOptimizingFunction" THEN log[i].n ELSE 0 - i]
  IN  /\ w.ok
      /\ NoDup(ids)
      /\ NoDup(w.open)
      /\ pc # "aborted" => w.open = [k \in 1..Len(frames) |-> frames[k].currentOptimizedFunctionId]
      /\ pc \in {"verify", "report", "done"} => w.open = <<>>

\* a completed run with a window nested in a window nested in a window
C26_Witness ==
  /\ pc = "done"
  /\ \E i, j, k \in Begins :
        /\ i < j /\ j < k
        /\ HasEnded(i) /\ HasEnded(j) /\ HasEnded(k)
        /\ EndOf(k) < EndOf(j) /\ EndOf(j) < EndOf(i)

\* the guarded calls of a hoisting factory among the emitted statements, and the
\* calls of serializeLazyHoistedNodes that found hoisted nodes
GuardedCalls == {i \in 1..Len(emitted) : emitted[i].kind = "guard"}
Resets == {i \in 1..Len(returned) : returned[i] # <<>>}
\* the identifiers that the empty declarations of one result declare
DeclaredIn(entries) == [i \in 1..(Len(entries) - 1) |-> entries[i + 1].id]
NoDuplicates(seq) == \A i, j \in 1..Len(seq) : seq[i] = seq[j] => i = j

C27_OneGuardPerReset ==
  Cardinality(GuardedCalls) = Cardinality(Resets) + (IF lazilyHoistedNodes = <<>> THEN 0 ELSE 1)
C27_SharedIdentifier ==
  /\ lazilyHoistedNodes # <<>> =>
       \A i \in 1..Len(lazilyHoistedNodes[1].nodes) :
          lazilyHoistedNodes[1].nodes[i].astNode.callee
            = lazilyHoistedNodes[1].createElementIdentifier
  /\ \A r \in Resets : \A i \in 1..Len(returned[r][1].body) :
       returned[r][1].body[i].astNode.callee = returned[r][1].params[1]
C27_OneDeclarationPerIdentifier ==
  \A r \in Resets :
     /\ returned[r][1].kind = "factory"
     /\ \A i \in 2..Len(returned[r]) : returned[r][i].kind = "var"
     /\ NoDuplicates(DeclaredIn(returned[r]))
     /\ Range(DeclaredIn(returned[r]))
          = {returned[r][1].body[i].id : i \in 1..Len(returned[r][1].body)}

\* C27: between two resets by serializeLazyHoistedNodes the guarded call of the
\* hoisting factory is emitted once at most and each reset answers one guarded
\* call, every hoisted node calls the one hoisted createElement identifier, and
\* each result is the factory declaration followed by exactly one empty
\* declaration per distinct hoisted element identifier
C27_HoistedNodesOncePerReset ==
  /\ C27_OneGuardPerReset
  /\ C27_SharedIdentifier
  /\ C27_OneDeclarationPerIdentifier

\* the declarations of and assignments to the identifier of element e among the
\* emitted statements, in order
EmissionsOf(e) ==
  LET IsOf(statement) == /\ statement.kind \in {"var", "assign"}
                         /\ statement.id = getSerializeObjectIdentifier(e)
  IN  SelectSeq(emitted, IsOf)
\* the dependencies that the type, the attributes and the children of element e wait on
PartReasons(e) ==
  ({elementValues[e].deps.type} \cup Range(elementValues[e].deps.attributes)
     \cup Range(elementValues[e].deps.children)) \ {NoReason}
\* the node holds every attribute and every child of element e, in their order
IsComplete(node, e) ==
  /\ Len(node.props) = Len(elementValues[e].attributes)
  /\ \A i \in 1..Len(node.props) : node.props[i].expr = serializeValue(e, "attribute", i)
  /\ Len(node.children) = elementValues[e].children
  /\ \A i \in 1..Len(node.children) : node.children[i] = serializeValue(e, "child", i)
  /\ \A i \in 1..Len(reactElements[e].attributes) :
        reactElements[e].attributes[i].type # "PENDING"
  /\ \A i \in 1..Len(reactElements[e].children) :
        reactElements[e].children[i].type # "PENDING"

\* C28: for an element that is not hoisted, once every dependency of its type,
\* attributes and children is released, the node emitted last for it holds every
\* attribute and child in the original order and none is left PENDING, and a node
\* is emitted once the element value itself waits no longer; the first emission
\* declares the identifier with var and every later one assigns to it
C28_DeferredPartsEmitted ==
  \A e \in 1..Len(reactElements) :
     ~elementValues[e].shouldHoist =>
       LET emissions == EmissionsOf(e)
       IN  /\ (PartReasons(e) \subseteq released /\ emissions # <<>>) =>
                IsComplete(emissions[Len(emissions)].node, e)
           /\ PartReasons(e) \cup ({elementValues[e].deps.value} \ {NoReason}) \subseteq released
                => emissions # <<>>
           /\ \A i \in 1..Len(emissions) :
                /\ emissions[i].kind = (IF i = 1 THEN "var" ELSE "assign")
                /\ \A k \in 1..Len(emissions[i].node.props) :
                      emissions[i].node.props[k].expr.of = e
                /\ \A k \in 1..Len(emissions[i].node.children) :
                      emissions[i].node.children[k].of = e

\* an element with two parts, the first of which waited, emitted again after
\* the release
C28_Witness ==
  \E e \in 1..Len(reactElements) :
     /\ ~elementValues[e].shouldHoist
     /\ Len(elementValues[e].attributes) + elementValues[e].children = 2
     /\ PartReasons(e) # {}
     /\ PartReasons(e) \subseteq released
     /\ DepsOf(elementValues[e])[3] # NoReason
     /\ Len(EmissionsOf(e)) = 2
     /\ EmissionsOf(e)[1].kind = "var" /\ ~IsComplete(EmissionsOf(e)[1].node, e)
     /\ EmissionsOf(e)[2].kind = "assign" /\ IsComplete(EmissionsOf(e)[2].node, e)

====
